---------------------------- MODULE Spec2Model ----------------------------
(***************************************************************************)
(* A model of the TensorFlow GraphDef importer (TFImporter) of ngraph.     *)
(*                                                                         *)
(* Strings are sequences of tokens.  The tokens "^", ":", "/", "_", "-",   *)
(* "+" and the digits "0".."9" stand for the characters themselves; every  *)
(* other token stands for a run of characters that contains none of them.  *)
(* So "^a/b:1" is <<"^","a","/","b",":","1">> and the string operations    *)
(* of the code (split, replace, int, slicing off a prefix) are computed on *)
(* the tokens the way Python computes them on characters.                  *)
(*                                                                         *)
(* Python values that the importer stores are tagged records:             *)
(*   [tag |-> "None"]                       None (the "missing" marker)    *)
(*   [tag |-> "Op", uid, name, given, special]     one Operation           *)
(*   [tag |-> "Tuple", elems |-> <<Op, ...>>]      a tuple of Operations   *)
(* uid is the object identity; name is the mutable exposed name; given is  *)
(* the name the bridge constructed the Operation with (never mutated).     *)
(***************************************************************************)
EXTENDS Integers, Sequences, FiniteSets, TLC

VARIABLES
    pb,             \* the GraphDef the caller holds: a sequence of nodes
    name_op_map,    \* self.name_op_map
    ops_bridge,     \* self.ops_bridge (its instance attributes)
    init_ops,       \* self.init_ops
    graph_def,      \* self.graph_def
    pc,             \* position of the running call: "idle", "pass1", "pass2"
    idx,            \* position in graph_def.node of the running loop
    ret,            \* outcome of the last finished call (none while one runs)
    nparse,         \* parse_graph_def calls since the last reset
    next_uid,       \* identity of the next Operation object constructed
    trace,          \* the nodes the running/last parse has processed, in order
    snap,           \* shape of the session result of the first reset-parse
    at_call,        \* the table and init_ops as the running/last parse found them
    graph,          \* the Operation graph the Transformer works on
    executors,      \* the callables built from the graph
    allocation,     \* the Transformer's allocation table, keyed by Operation
    run             \* position of the running executor invocation

vars == <<pb, name_op_map, ops_bridge, init_ops, graph_def, pc, idx, ret,
          nparse, next_uid, trace, snap, at_call,
          graph, executors, allocation, run>>

\* the importer's part of the state and the Transformer's part
ivars == <<pb, name_op_map, ops_bridge, init_ops, graph_def, pc, idx, ret,
           nparse, next_uid, trace, snap, at_call>>

tvars == <<graph, executors, allocation, run>>

----------------------------------------------------------------------------
(* Bounds *)

MaxNodes == 3     \* longest node list
MaxParses == 2    \* parse_graph_def calls between two resets

----------------------------------------------------------------------------
(* Python values *)

NoneV == [tag |-> "None"]

MkOp(u, n, s) == [tag |-> "Op", uid |-> u, name |-> n, given |-> n, special |-> s]

MkTuple(es) == [tag |-> "Tuple", elems |-> es]

IsNone(v) == v.tag = "None"

\* isinstance(v, tuple)
IsTuple(v) == v.tag = "Tuple"

\* an outcome of a call: it returned val, or raised exc
Returned(c, v) == [call |-> c, exc |-> "", val |-> v]

Raised(c, e) == [call |-> c, exc |-> e, val |-> NoneV]

\* no outcome: a call is running
Running == [call |-> "", exc |-> "", val |-> NoneV]

----------------------------------------------------------------------------
(* String operations *)

Digits == <<"0", "1", "2", "3", "4", "5", "6", "7", "8", "9">>

IsDigit(t) == \E i \in 1..10 : Digits[i] = t

DigitVal(t) == (CHOOSE i \in 1..10 : Digits[i] = t) - 1

RECURSIVE DecOf(_)
DecOf(s) == IF s = <<>> THEN 0
            ELSE 10 * DecOf(SubSeq(s, 1, Len(s) - 1)) + DigitVal(s[Len(s)])

AllDigits(s) == s # <<>> /\ \A i \in 1..Len(s) : IsDigit(s[i])

\* int(s) succeeds: an optional sign, then one or more digits
IntOk(s) == IF s # <<>> /\ s[1] \in {"-", "+"} THEN AllDigits(Tail(s))
            ELSE AllDigits(s)

\* int(s), for IntOk(s)
IntOf(s) == IF s[1] = "-" THEN 0 - DecOf(Tail(s))
            ELSE IF s[1] = "+" THEN DecOf(Tail(s))
            ELSE DecOf(s)

\* s.split(sep): the pieces between the occurrences of sep, at least one
RECURSIVE SplitAcc(_, _, _)
SplitAcc(s, sep, cur) ==
    IF s = <<>> THEN <<cur>>
    ELSE IF s[1] = sep THEN <<cur>> \o SplitAcc(Tail(s), sep, <<>>)
    ELSE SplitAcc(Tail(s), sep, Append(cur, s[1]))

Split(s, sep) == SplitAcc(s, sep, <<>>)

\* s.replace(old, new) for one-character old and new
Replace(s, old, new) == [i \in 1..Len(s) |-> IF s[i] = old THEN new ELSE s[i]]

\* utils.remove_tf_name_prefix: strip the control-dependency marker
remove_tf_name_prefix(name) == IF name[1] = "^" THEN Tail(name) ELSE name

----------------------------------------------------------------------------
(* The Op Dispatch Bridge (OpsBridge).  Its source is not part of the files *)
(* modelled here; it is modelled from its specification and from what the   *)
(* importer relies on.                                                      *)

\* the op-type tags the bridge has a handler for
SupportedOps == {"Add", "Assign", "BroadcastGradientArgs", "NoOp", "Unpack"}

\* number of Operations a handler returns as a tuple; 0: a single Operation
TupleArity(op) ==
    IF op = "BroadcastGradientArgs" THEN 2 ELSE IF op = "Unpack" THEN 1 ELSE 0

\* OpsBridge(): a fresh instance, its Assignment-Dependency Set empty
OpsBridge == [init_assign_op_names |-> {}]

\* Operation objects a bridge call on this node constructs
NewObjects(tf_node) ==
    IF tf_node.op \notin SupportedOps THEN 0
    ELSE IF TupleArity(tf_node.op) = 0 THEN 1 ELSE TupleArity(tf_node.op)

\* ops_bridge(tf_node, input_ops): an unsupported type tag is a soft failure,
\* the call yields None; an Assign node that the aggregate initializer
\* depends on is special-cased; each Operation is named after the node
OpsBridgeCall(bridge, tf_node, input_ops, uid) ==
    IF tf_node.op \notin SupportedOps THEN NoneV
    ELSE IF TupleArity(tf_node.op) = 0
    THEN MkOp(uid, tf_node.name,
              tf_node.op = "Assign" /\ tf_node.name \in bridge.init_assign_op_names)
    ELSE MkTuple([k \in 1..TupleArity(tf_node.op) |->
                    MkOp(uid + k - 1, tf_node.name, FALSE)])

----------------------------------------------------------------------------
(* TFImporter: the functions *)

Ok(v) == [exc |-> "", val |-> v]

Err(e) == [exc |-> e, val |-> NoneV]

\* t[i] for a Python tuple t: negative indices count from the end
TupleIndex(t, i) ==
    LET n == Len(t.elems)
    IN  IF 0 <= i /\ i < n THEN Ok(t.elems[i + 1])
        ELSE IF 0 - n <= i /\ i < 0 THEN Ok(t.elems[n + i + 1])
        ELSE Err("IndexError")

\* self.name_op_map[key]
MapGet(m, key) == IF key \in DOMAIN m THEN Ok(m[key]) ELSE Err("KeyError")

\* SplitName with the check of the suffix left out: a malformed suffix is
\* taken as no suffix
SplitName_Lenient(name) ==
    LET stripped == remove_tf_name_prefix(name)
        name_splits == Split(stripped, ":")
    IN  IF Len(name_splits) = 2 /\ IntOk(name_splits[2])
        THEN [exc |-> "", suffixed |-> TRUE, k |-> IntOf(name_splits[2]),
              base |-> name_splits[1]]
        ELSE [exc |-> "", suffixed |-> FALSE, k |-> 0, base |-> name_splits[1]]

\* get_op_handle_by_name, lines 159-171: the prefix removed, the name split
\* at ":", the length of the split asserted and the suffix converted
SplitName(name) ==
    LET stripped == remove_tf_name_prefix(name)
        name_splits == Split(stripped, ":")
    IN  IF Len(name_splits) > 1
        THEN IF Len(name_splits) # 2
             THEN [exc |-> "AssertionError", suffixed |-> TRUE, k |-> 0, base |-> <<>>]
             ELSE IF ~IntOk(name_splits[2])
             THEN [exc |-> "ValueError", suffixed |-> TRUE, k |-> 0, base |-> <<>>]
             ELSE [exc |-> "", suffixed |-> TRUE, k |-> IntOf(name_splits[2]),
                   base |-> name_splits[1]]
        ELSE [exc |-> "", suffixed |-> FALSE, k |-> 0, base |-> stripped]

\* get_op_handle_by_name without the assertion on the index of a non-tuple
get_op_handle_by_name_NoAssert(m, name) ==
    LET split == SplitName(name)
    IN  IF split.exc # "" THEN Err(split.exc)
        ELSE IF split.suffixed
        THEN LET outputs == MapGet(m, split.base)
             IN  IF outputs.exc # "" THEN outputs
                 ELSE IF ~IsTuple(outputs.val) THEN MapGet(m, split.base)
                 ELSE TupleIndex(m[split.base], split.k)
        ELSE MapGet(m, split.base)

\* TFImporter.get_op_handle_by_name on the table m
get_op_handle_by_name(m, name) ==
    LET split == SplitName(name)
    IN  IF split.exc # "" THEN Err(split.exc)
        ELSE IF split.suffixed
        THEN LET outputs == MapGet(m, split.base)
             IN  IF outputs.exc # "" THEN outputs
                 ELSE IF ~IsTuple(outputs.val)
                 THEN IF split.k # 0 THEN Err("AssertionError")
                      ELSE MapGet(m, split.base)
                 ELSE TupleIndex(m[split.base], split.k)
        ELSE MapGet(m, split.base)

\* post_process_op with the renaming left out
post_process_op_KeepsName(op) == op

\* TFImporter.post_process_op
post_process_op(op) ==
    IF IsNone(op) THEN NoneV
    ELSE [op EXCEPT !.name = Replace(op.name, "/", "_")]

\* [self.get_op_handle_by_name(name) for name in tf_node.input]: the list of
\* the resolved inputs, or the first exception
RECURSIVE ResolveInputs(_, _)
ResolveInputs(m, names) ==
    IF names = <<>> THEN [exc |-> "", vals |-> <<>>]
    ELSE LET first == get_op_handle_by_name(m, names[1])
         IN  IF first.exc # "" THEN [exc |-> first.exc, vals |-> <<>>]
             ELSE LET rest == ResolveInputs(m, Tail(names))
                  IN  IF rest.exc # "" THEN rest
                      ELSE [exc |-> "", vals |-> <<first.val>> \o rest.vals]

\* None in input_ops
NoneIn(input_ops) == \E i \in 1..Len(input_ops) : IsNone(input_ops[i])

\* tf_node.op == 'NoOp' and tf_node.name == 'init'
IsInitNode(tf_node) == tf_node.op = "NoOp" /\ tf_node.name = <<"init">>

\* OutputOp with the test for a missing input left out
OutputOp_CallsAnyway(bridge, tf_node, input_ops, uid) ==
    [called |-> TRUE, op |-> OpsBridgeCall(bridge, tf_node, input_ops, uid)]

\* lines 95-101: the node's output before post-processing, and whether the
\* bridge was called for it
OutputOp(bridge, tf_node, input_ops, uid) ==
    IF NoneIn(input_ops) THEN [called |-> FALSE, op |-> NoneV]
    ELSE [called |-> TRUE, op |-> OpsBridgeCall(bridge, tf_node, input_ops, uid)]

\* lines 103-117: to a list, post-process each element, back to tuple or op
Repack(output_op) ==
    LET as_list == IF IsTuple(output_op) THEN output_op.elems ELSE <<output_op>>
        processed == [i \in 1..Len(as_list) |-> post_process_op(as_list[i])]
    IN  IF Len(processed) > 1 THEN MkTuple(processed) ELSE processed[1]

\* the append made for every node
SaveInitOp_EveryNode(inits, tf_node, output_op) == Append(inits, output_op)

\* lines 119-121: the value of the aggregate initializer node is appended
SaveInitOp(inits, tf_node, output_op) ==
    IF IsInitNode(tf_node) THEN Append(inits, output_op) ELSE inits

\* the assignment that replaces the table by the one new entry
MapPut_Replaces(m, key, value) == [k \in {key} |-> value]

\* the assignment made only for a node that produced an Operation
MapPut_SkipsNone(m, key, value) ==
    IF IsNone(value) THEN m
    ELSE [k \in DOMAIN m \cup {key} |-> IF k = key THEN value ELSE m[k]]

\* self.name_op_map[key] = value
MapPut(m, key, value) ==
    [k \in DOMAIN m \cup {key} |-> IF k = key THEN value ELSE m[k]]

----------------------------------------------------------------------------
(* The node lists the importer is run on *)

A == <<"a">>
AB == <<"a", "/", "b">>
C == <<"c">>
INIT == <<"init">>

Node(n, o, i) == [name |-> n, op |-> o, input |-> i]

\* the nodes the lists are built from
NodePool ==
    { Node(A, "Assign", <<>>),
      Node(A, "FancyNewOp", <<>>),
      Node(AB, "BroadcastGradientArgs", << A >>),
      Node(AB, "Unpack", <<>>),
      Node(C, "Add", << AB \o <<":", "1">> >>),
      Node(C, "Add", << AB >>),
      Node(C, "Add", << A \o <<":", "x">> >>),
      Node(C, "Add", << A \o <<":", "0", ":", "1">> >>),
      Node(INIT, "NoOp", << <<"^">> \o A, AB \o <<":", "0">> >>) }

NodeLists == UNION { [1..n -> NodePool] : n \in 0..MaxNodes }

\* the reference strings a caller looks up
LookupRefs ==
    { A, AB, C, INIT,
      AB \o <<":", "0">>, AB \o <<":", "1">>, AB \o <<":", "2">>,
      AB \o <<":", "-", "1">>, <<"^">> \o AB \o <<":", "1">>,
      A \o <<":", "0">>, A \o <<":", "1">>,
      A \o <<":", "x">>, A \o <<":", "0", ":", "1">> }

----------------------------------------------------------------------------
(* TFImporter: the state machine *)

EmptyMap == [k \in {} |-> NoneV]

NoGraph == [set |-> FALSE, node |-> <<>>]

NoSnap == [taken |-> FALSE]

\* nothing recorded of a parse call: the session has had none
NoCall == [table |-> EmptyMap, inits |-> <<>>]

\* the callables check_rnn builds from one graph with one ExecutorFactory
Executors == {"fprop_neon_fun", "dWrecur_s_fun"}

NotBuilt == [built |-> FALSE, output |-> 0, calls |-> 0]

NoExecutors == [e \in Executors |-> NotBuilt]

\* no executor invocation is running
NoRun == [phase |-> "idle", executor |-> "", pos |-> 0]

\* the shape of a table value: -1 missing, 0 a single Operation, n a tuple
ShapeOf(v) == IF IsNone(v) THEN 0 - 1 ELSE IF IsTuple(v) THEN Len(v.elems) ELSE 0

ShapeTable(m) == [k \in DOMAIN m |-> ShapeOf(m[k])]

\* the import result that a re-import is compared with
SessionShape(m, inits) == [table |-> ShapeTable(m), ninit |-> Len(inits)]

\* TFImporter.__init__: reset() on a new object
Init ==
    /\ pb \in NodeLists
    /\ name_op_map = EmptyMap
    /\ ops_bridge = OpsBridge
    /\ init_ops = <<>>
    /\ graph_def = NoGraph
    /\ pc = "idle"
    /\ idx = 0
    /\ ret = Returned("__init__", NoneV)
    /\ nparse = 0
    /\ next_uid = 0
    /\ trace = <<>>
    /\ snap = NoSnap
    /\ at_call = NoCall
    /\ graph = <<>>
    /\ executors = NoExecutors
    /\ allocation = <<>>
    /\ run = NoRun

\* reset that keeps the bridge
Reset_KeepsBridge ==
    /\ pc = "idle"
    /\ name_op_map' = EmptyMap
    /\ init_ops' = <<>>
    /\ graph_def' = NoGraph
    /\ ret' = Returned("reset", NoneV)
    /\ idx' = 0
    /\ nparse' = 0
    /\ next_uid' = 0
    /\ trace' = <<>>
    /\ at_call' = NoCall
    /\ UNCHANGED <<pb, pc, snap, ops_bridge>>
    /\ UNCHANGED tvars

\* reset that keeps the list of initializer operations
Reset_KeepsInitOps ==
    /\ pc = "idle"
    /\ name_op_map' = EmptyMap
    /\ ops_bridge' = OpsBridge
    /\ graph_def' = NoGraph
    /\ ret' = Returned("reset", NoneV)
    /\ idx' = 0
    /\ nparse' = 0
    /\ next_uid' = 0
    /\ trace' = <<>>
    /\ at_call' = NoCall
    /\ UNCHANGED <<pb, pc, snap, init_ops>>
    /\ UNCHANGED tvars

\* TFImporter.reset
Reset ==
    /\ pc = "idle"
    /\ name_op_map' = EmptyMap
    /\ ops_bridge' = OpsBridge
    /\ init_ops' = <<>>
    /\ graph_def' = NoGraph
    /\ ret' = Returned("reset", NoneV)
    /\ idx' = 0
    /\ nparse' = 0
    /\ next_uid' = 0
    /\ trace' = <<>>
    /\ at_call' = NoCall
    /\ UNCHANGED <<pb, pc, snap>>
    /\ UNCHANGED tvars

\* parse_graph_def returns normally: the bookkeeping of the finished call,
\* the n-th of the session
Finish(n, m, inits) ==
    /\ pc' = "idle"
    /\ ret' = Returned("parse_graph_def", NoneV)
    /\ snap' = IF n # 1 THEN snap
               ELSE IF ~snap.taken
               THEN [taken |-> TRUE, shape |-> SessionShape(m, inits), again |-> FALSE]
               ELSE [snap EXCEPT !.again = TRUE]

\* parse_graph_def, line 74: the call starts
ParseBegin ==
    /\ pc = "idle"
    /\ nparse < MaxParses
    /\ graph_def' = [set |-> TRUE, node |-> pb]
    /\ nparse' = nparse + 1
    /\ trace' = <<>>
    /\ idx' = 1
    /\ IF pb = <<>>
       THEN Finish(nparse + 1, name_op_map, init_ops)
       ELSE pc' = "pass1" /\ ret' = Running /\ snap' = snap
    /\ at_call' = [table |-> name_op_map, inits |-> init_ops]
    /\ UNCHANGED <<pb, name_op_map, ops_bridge, init_ops, next_uid>>
    /\ UNCHANGED tvars

\* the names an initializer node adds to the Assignment-Dependency Set
AssignOpNames(tf_node) ==
    { remove_tf_name_prefix(tf_node.input[i]) : i \in 1..Len(tf_node.input) }

\* a pass 1 that walks the list and collects nothing
Pass1Step_NoDiscovery ==
    /\ pc = "pass1"
    /\ IF idx = Len(graph_def.node)
       THEN pc' = "pass2" /\ idx' = 1
       ELSE pc' = "pass1" /\ idx' = idx + 1
    /\ UNCHANGED <<pb, name_op_map, ops_bridge, init_ops, graph_def, ret, nparse,
                   next_uid, trace, snap, at_call>>
    /\ UNCHANGED tvars

\* parse_graph_def, lines 78-82: one iteration of pass 1
Pass1Step ==
    /\ pc = "pass1"
    /\ LET tf_node == graph_def.node[idx]
       IN  ops_bridge' =
             IF IsInitNode(tf_node)
             THEN [ops_bridge EXCEPT !.init_assign_op_names =
                      @ \cup AssignOpNames(tf_node)]
             ELSE ops_bridge
    /\ IF idx = Len(graph_def.node)
       THEN pc' = "pass2" /\ idx' = 1
       ELSE pc' = "pass1" /\ idx' = idx + 1
    /\ UNCHANGED <<pb, name_op_map, init_ops, graph_def, ret, nparse, next_uid,
                   trace, snap, at_call>>
    /\ UNCHANGED tvars

\* an abort that puts the table and the initializer list back to what they
\* were when the call started
Abort_RollsBack(exc) ==
    /\ pc' = "idle"
    /\ ret' = Raised("parse_graph_def", exc)
    /\ name_op_map' = at_call.table
    /\ init_ops' = at_call.inits
    /\ UNCHANGED <<idx, next_uid, trace, snap>>

\* lines 91-93: an exception of get_op_handle_by_name leaves
\* parse_graph_def; no handler, nothing is undone
Abort(exc) ==
    /\ pc' = "idle"
    /\ ret' = Raised("parse_graph_def", exc)
    /\ UNCHANGED <<name_op_map, init_ops, idx, next_uid, trace, snap>>

\* parse_graph_def, lines 85-123: one iteration of pass 2
Pass2Step ==
    /\ pc = "pass2"
    /\ LET tf_node == graph_def.node[idx]
           resolved == ResolveInputs(name_op_map, tf_node.input)
       IN  IF resolved.exc # ""
           THEN Abort(resolved.exc)
           ELSE LET input_ops == resolved.vals
                    out == OutputOp(ops_bridge, tf_node, input_ops, next_uid)
                    called == out.called
                    output_op == Repack(out.op)
                    inits == SaveInitOp(init_ops, tf_node, output_op)
                    table == MapPut(name_op_map, tf_node.name, output_op)
                IN  /\ init_ops' = inits
                    /\ name_op_map' = table
                    /\ next_uid' = IF called THEN next_uid + NewObjects(tf_node)
                                   ELSE next_uid
                    /\ trace' = Append(trace,
                                       [pos |-> idx,
                                        none_in |-> NoneIn(input_ops),
                                        called |-> called,
                                        assigns |-> ops_bridge.init_assign_op_names,
                                        raw |-> out.op,
                                        out |-> output_op])
                    /\ idx' = idx + 1
                    /\ IF idx = Len(graph_def.node)
                       THEN Finish(nparse, table, inits)
                       ELSE UNCHANGED <<pc, ret, snap>>
    /\ UNCHANGED <<pb, ops_bridge, graph_def, nparse, at_call>>
    /\ UNCHANGED tvars

\* a caller's get_op_handle_by_name(name)
Lookup ==
    /\ pc = "idle"
    /\ \E name \in LookupRefs :
         LET r == get_op_handle_by_name(name_op_map, name)
         IN  ret' = [call |-> "get_op_handle_by_name", arg |-> name,
                     exc |-> r.exc, val |-> r.val]
    /\ UNCHANGED <<pb, name_op_map, ops_bridge, init_ops, graph_def, pc, idx,
                   nparse, next_uid, trace, snap, at_call>>
    /\ UNCHANGED tvars

\* the protobuf text file of a node list, as the lines f.readlines() gives
\* after strip(): each line is the sequence of its space-separated words
RECURSIVE PbText(_)
PbText(nodes) ==
    IF nodes = <<>> THEN <<>>
    ELSE << << <<"node">>, <<"{">> >>,
            << <<"name", ":">>, <<"\"">> \o nodes[1].name \o <<"\"">> >>,
            << <<"op", ":">>, <<"\"", nodes[1].op, "\"">> >> >>
         \o [i \in 1..Len(nodes[1].input) |->
               << <<"input", ":">>, <<"\"">> \o nodes[1].input[i] \o <<"\"">> >>]
         \o << << <<"}">> >> >>
         \o PbText(Tail(nodes))

\* dir(ob) of an OpsBridge instance: the handlers, the special methods and
\* the instance attribute
DirOpsBridge ==
    { <<t>> : t \in SupportedOps }
    \cup { <<"_", "_", "init", "_", "_">>, <<"_", "_", "call", "_", "_">>,
           <<"init", "_", "assign", "_", "op", "_", "names">> }

\* ob.__dict__ of a new OpsBridge instance
DictOpsBridge == { <<"init", "_", "assign", "_", "op", "_", "names">> }

\* the op-type tags of the model in the order Python compares strings
OpTagOrder == <<"Add", "AnotherNewOp", "Assign", "BroadcastGradientArgs",
                "FancyNewOp", "NoOp", "Unpack">>

\* the position of a one-token string in that order
TagRank(w) == CHOOSE i \in 1..Len(OpTagOrder) : OpTagOrder[i] = w[1]

\* sorted(list(S)) for a set of op-type strings
RECURSIVE Sorted(_)
Sorted(S) ==
    IF S = {} THEN <<>>
    ELSE LET least == CHOOSE x \in S : \A y \in S : TagRank(x) <= TagRank(y)
         IN  <<least>> \o Sorted(S \ {least})

\* lines 213-217: the op names of the lines that start with 'op:'
RequiredOps(lines) ==
    { SubSeq(lines[i][2], 2, Len(lines[i][2]) - 1) :
        i \in { j \in 1..Len(lines) : lines[j][1] = <<"op", ":">> } }

\* the required ops in the order of their first line in the file
RECURSIVE InFileOrder(_, _)
InFileOrder(lines, S) ==
    IF lines = <<>> THEN <<>>
    ELSE LET w == IF lines[1][1] = <<"op", ":">>
                  THEN SubSeq(lines[1][2], 2, Len(lines[1][2]) - 1) ELSE <<>>
         IN  IF w \in S THEN <<w>> \o InFileOrder(Tail(lines), S \ {w})
             ELSE InFileOrder(Tail(lines), S)

\* _get_unimplemented_ops with the sort left out
get_unimplemented_ops_Unsorted(lines) ==
    InFileOrder(lines, RequiredOps(lines) \ { <<t>> : t \in SupportedOps })

\* TFImporter._get_unimplemented_ops on the lines of the file at pb_path
get_unimplemented_ops(lines) ==
    LET required_ops == RequiredOps(lines)
        supported_ops == { name \in DirOpsBridge :
                             name[1] # "_" /\ name \notin DictOpsBridge }
        unimplemented_ops == required_ops \ supported_ops
    IN  Sorted(unimplemented_ops)

\* the query run with its bridge instance kept as self.ops_bridge
Unimplemented_KeepsItsBridge ==
    /\ pc = "idle"
    /\ ret' = [call |-> "_get_unimplemented_ops", exc |-> "",
               val |-> [tag |-> "List", elems |-> get_unimplemented_ops(PbText(pb))]]
    /\ ops_bridge' = OpsBridge
    /\ UNCHANGED <<pb, name_op_map, init_ops, graph_def, pc, idx,
                   nparse, next_uid, trace, snap, at_call>>
    /\ UNCHANGED tvars

\* a caller's _get_unimplemented_ops(pb_path), the file holding pb as text
Unimplemented ==
    /\ pc = "idle"
    /\ ret' = [call |-> "_get_unimplemented_ops", exc |-> "",
               val |-> [tag |-> "List", elems |-> get_unimplemented_ops(PbText(pb))]]
    /\ UNCHANGED <<pb, name_op_map, ops_bridge, init_ops, graph_def, pc, idx,
                   nparse, next_uid, trace, snap, at_call>>
    /\ UNCHANGED tvars

Next ==
    \/ Reset
    \/ Unimplemented
    \/ ParseBegin
    \/ Pass1Step
    \/ Pass2Step
    \/ Lookup

Spec == Init /\ [][Next]_vars

----------------------------------------------------------------------------
(* The bulk diagnostic query on its own: the files queried hold any op tags *)

QueryOps == {"Add", "NoOp", "FancyNewOp", "AnotherNewOp"}

QueryLists == UNION { [1..n -> { Node(A, o, <<AB>>) : o \in QueryOps }] :
                        n \in 0..MaxNodes }

InitQuery ==
    /\ pb \in QueryLists
    /\ name_op_map = EmptyMap
    /\ ops_bridge = OpsBridge
    /\ init_ops = <<>>
    /\ graph_def = NoGraph
    /\ pc = "idle"
    /\ idx = 0
    /\ ret = Returned("__init__", NoneV)
    /\ nparse = 0
    /\ next_uid = 0
    /\ trace = <<>>
    /\ snap = NoSnap
    /\ at_call = NoCall
    /\ graph = <<>>
    /\ executors = NoExecutors
    /\ allocation = <<>>
    /\ run = NoRun

NextQuery == Unimplemented

SpecQuery == InitQuery /\ [][NextQuery]_vars

----------------------------------------------------------------------------
(* The Transformer: allocation and forward execution over one graph.  The   *)
(* NumPy backend gives the allocators and the kernels; the engine that      *)
(* calls them is the Transformer base class, modelled as specified: an     *)
(* allocation table keyed by Operation identity, shared by the executors    *)
(* built from the graph.                                                     *)

MaxOps == 3

MaxCalls == 2

\* an Operation of the graph: its kind and the positions of its arguments
GraphOp(kind, args) == [kind |-> kind, args |-> args]

\* the Operations without arguments: an input, a random-uniform initializer
SourceKinds == {"placeholder", "NPUniform"}

\* what can stand at position i: a source, or a kernel over one or two
\* earlier Operations
OpsAt(i) ==
    { GraphOp(k, {}) : k \in SourceKinds }
    \cup { GraphOp("kernel", a) :
             a \in { x \in SUBSET (1..(i - 1)) : x # {} /\ Cardinality(x) <= 2 } }

Graphs ==
    UNION { { g \in [1..n -> UNION { OpsAt(i) : i \in 1..n }] :
                \A i \in 1..n : g[i] \in OpsAt(i) } : n \in 1..MaxOps }

\* the Operations an output depends on, itself included
RECURSIVE Reachable(_, _)
Reachable(g, out) == {out} \cup UNION { Reachable(g, a) : a \in g[out].args }

\* an entry of the allocation table: the materialization state, the identity
\* of the backing array (0: none) and the number of arrays created for it
Unallocated == [state |-> "unallocated", buffer |-> 0, allocs |-> 0]

\* the identity of the next array created
FreshBuffer(table) ==
    1 + (CHOOSE m \in {0} \cup { table[i].buffer : i \in DOMAIN table } :
           \A i \in DOMAIN table : table[i].buffer <= m)

\* NumPyTransformer.empty: a new array with arbitrary contents
empty(table, op) ==
    [table EXCEPT ![op] = [state |-> "allocated-uninitialized",
                           buffer |-> FreshBuffer(table),
                           allocs |-> @.allocs + 1]]

\* NumPyTransformer.rng_uniform_tensor: a new array of uniform samples
rng_uniform_tensor(table, op) ==
    [table EXCEPT ![op] = [state |-> "initialized",
                           buffer |-> FreshBuffer(table),
                           allocs |-> @.allocs + 1]]

\* NumPyTransformer.set_item / fill: writes into the given array
set_item(table, op) == [table EXCEPT ![op].state = "initialized"]

\* a kernel that leaves its result in a new array
Kernel_NewArray(table, op) ==
    [table EXCEPT ![op] = [state |-> "initialized",
                           buffer |-> FreshBuffer(table),
                           allocs |-> @.allocs + 1]]

\* a NumPyTransformer kernel, np.f(x, ..., out=out): writes into out
Kernel(table, op) == [table EXCEPT ![op].state = "initialized"]

\* a Tensor Description request that allocates on every request
TensorDescription_NoMemo(table, g, op) ==
    IF g[op].kind = "NPUniform"
    THEN [table EXCEPT ![op].state = "allocated-uninitialized"]
    ELSE empty(table, op)

\* the engine's Tensor Description request for an Operation, memoized by
\* Operation identity; an Allocation Operation gets its array from its
\* allocation closure
TensorDescription(table, g, op) ==
    IF table[op].state # "unallocated" THEN table
    ELSE IF g[op].kind = "NPUniform"
    THEN [table EXCEPT ![op].state = "allocated-uninitialized"]
    ELSE empty(table, op)

\* the engine's forward step for an Operation
Forward(table, g, op) ==
    IF g[op].kind = "placeholder" THEN set_item(table, op)
    ELSE IF g[op].kind = "NPUniform"
    THEN IF table[op].state = "initialized" THEN table
         ELSE rng_uniform_tensor(table, op)
    ELSE Kernel(table, op)

InitExec ==
    /\ pb = <<>>
    /\ name_op_map = EmptyMap
    /\ ops_bridge = OpsBridge
    /\ init_ops = <<>>
    /\ graph_def = NoGraph
    /\ pc = "idle"
    /\ idx = 0
    /\ ret = Returned("__init__", NoneV)
    /\ nparse = 0
    /\ next_uid = 0
    /\ trace = <<>>
    /\ snap = NoSnap
    /\ at_call = NoCall
    /\ graph \in Graphs
    /\ executors = NoExecutors
    /\ allocation = [i \in 1..Len(graph) |-> Unallocated]
    /\ run = NoRun

\* ex.executor / ex.derivative: one more callable for an output of the graph
BuildExecutor ==
    /\ run.phase = "idle"
    /\ \E e \in Executors, out \in 1..Len(graph) :
         /\ ~executors[e].built
         /\ executors' = [executors EXCEPT
                            ![e] = [built |-> TRUE, output |-> out, calls |-> 0]]
    /\ UNCHANGED <<graph, allocation, run>>
    /\ UNCHANGED ivars

\* a built callable is invoked
InvokeBegin ==
    /\ run.phase = "idle"
    /\ \E e \in Executors :
         /\ executors[e].built
         /\ executors[e].calls < MaxCalls
         /\ executors' = [executors EXCEPT ![e].calls = @ + 1]
         /\ run' = [phase |-> "allocate", executor |-> e, pos |-> 1]
    /\ UNCHANGED <<graph, allocation>>
    /\ UNCHANGED ivars

\* the invocation allocates for the next Operation it reaches
AllocateStep ==
    /\ run.phase = "allocate"
    /\ LET op == run.pos
           out == executors[run.executor].output
       IN  allocation' = IF op \in Reachable(graph, out)
                         THEN TensorDescription(allocation, graph, op)
                         ELSE allocation
    /\ run' = IF run.pos = Len(graph)
              THEN [run EXCEPT !.phase = "forward", !.pos = 1]
              ELSE [run EXCEPT !.pos = @ + 1]
    /\ UNCHANGED <<graph, executors>>
    /\ UNCHANGED ivars

\* the invocation runs the next Operation in dependency order
ForwardStep ==
    /\ run.phase = "forward"
    /\ LET op == run.pos
           out == executors[run.executor].output
       IN  allocation' = IF op \in Reachable(graph, out)
                         THEN Forward(allocation, graph, op)
                         ELSE allocation
    /\ run' = IF run.pos = Len(graph) THEN NoRun
              ELSE [run EXCEPT !.pos = @ + 1]
    /\ UNCHANGED <<graph, executors>>
    /\ UNCHANGED ivars

NextExec ==
    \/ BuildExecutor
    \/ InvokeBegin
    \/ AllocateStep
    \/ ForwardStep

SpecExec == InitExec /\ [][NextExec]_vars

----------------------------------------------------------------------------
(* The reference grammar of the Name Resolver, as the specification states  *)
(* it: an optional leading "^", a base name, an optional ":<integer>".      *)

RefBody(r) == IF r # <<>> /\ r[1] = "^" THEN SubSeq(r, 2, Len(r)) ELSE r

Colons(r) == { i \in 1..Len(RefBody(r)) : RefBody(r)[i] = ":" }

FirstColon(r) == CHOOSE i \in Colons(r) : \A j \in Colons(r) : i <= j

RefBase(r) == IF Colons(r) = {} THEN RefBody(r)
              ELSE SubSeq(RefBody(r), 1, FirstColon(r) - 1)

RefSuffix(r) == SubSeq(RefBody(r), FirstColon(r) + 1, Len(RefBody(r)))

\* a malformed suffix: more than one colon-separated component, or a
\* component that is no integer
MalformedRef(r) ==
    \/ Cardinality(Colons(r)) > 1
    \/ Cardinality(Colons(r)) = 1 /\ ~IntOk(RefSuffix(r))

\* a reference to output k >= 0 of a base name; k = 0 when there is no suffix
PlainRef(r) == Colons(r) = {} \/ (Cardinality(Colons(r)) = 1 /\ AllDigits(RefSuffix(r)))

RefIndex(r) == IF Colons(r) = {} THEN 0 ELSE DecOf(RefSuffix(r))

\* the last position before j of a node named base in the parsed list, or 0
LastBefore(j, base) ==
    LET earlier == { i \in 1..(j - 1) : graph_def.node[i].name = base }
    IN  IF earlier = {} THEN 0 ELSE CHOOSE i \in earlier : \A h \in earlier : h <= i

\* parse_graph_def has returned / has raised, and no call was made since
ParseReturned == pc = "idle" /\ ret.call = "parse_graph_def" /\ ret.exc = ""

ParseRaised == pc = "idle" /\ ret.call = "parse_graph_def" /\ ret.exc # ""

----------------------------------------------------------------------------
(* Claims *)

\* C1: during parse, an input reference whose base name is not in the name
\* table never causes an exception (it resolves to the missing marker and
\* parse runs to completion): no parse ends with the error of an absent key.
C1_AbsentInputNeverRaises == ~(ParseRaised /\ ret.exc = "KeyError")

\* C2: every processed node with a missing resolved input is recorded as
\* missing without a bridge call, its table entry is what was recorded, and a
\* node that refers (unsuffixed or with :0) to an earlier node recorded as
\* missing is recorded as missing itself.
C2_MissingInputPropagation ==
    \A j \in 1..Len(trace) :
        LET node == graph_def.node[j]
        IN  /\ trace[j].pos = j
            /\ trace[j].none_in => ~trace[j].called /\ IsNone(trace[j].out)
            /\ (\A h \in (j + 1)..Len(trace) : graph_def.node[h].name # node.name)
                 => /\ node.name \in DOMAIN name_op_map
                    /\ name_op_map[node.name] = trace[j].out
            /\ \A i \in 1..Len(node.input) :
                 LET r == node.input[i]
                     p == LastBefore(j, RefBase(r))
                 IN  (PlainRef(r) /\ RefIndex(r) = 0 /\ p > 0 /\ IsNone(trace[p].out))
                       => ~trace[j].called /\ IsNone(trace[j].out)

\* C2 witness: a chain of three nodes, the second and the third recorded as
\* missing because of a missing input
C2_Witness ==
    /\ ParseReturned
    /\ Len(trace) = 3
    /\ trace[2].none_in /\ IsNone(trace[2].out)
    /\ trace[3].none_in /\ IsNone(trace[3].out)
    /\ IsNone(name_op_map[graph_def.node[3].name])

\* C3: a reference "base" or "base:k" to a tuple-valued entry looks up the
\* k-th element of the tuple, k = 0 when the reference has no suffix.
C3_ReferenceRoundTrip ==
    (/\ pc = "idle"
     /\ ret.call = "get_op_handle_by_name"
     /\ PlainRef(ret.arg)
     /\ RefBase(ret.arg) \in DOMAIN name_op_map
     /\ IsTuple(name_op_map[RefBase(ret.arg)])
     /\ RefIndex(ret.arg) < Len(name_op_map[RefBase(ret.arg)].elems))
    => /\ ret.exc = ""
       /\ ret.val = name_op_map[RefBase(ret.arg)].elems[RefIndex(ret.arg) + 1]

\* C4: between two resets, a name once inserted into the name table keeps
\* its value in every later step.
C4_InsertOnce ==
    [][ret'.call # "reset"
         => \A k \in DOMAIN name_op_map :
               k \in DOMAIN name_op_map' /\ name_op_map'[k] = name_op_map[k]]_vars

\* C5: after reset, whatever preceded it, the name table and the list of
\* initializer operations are empty and the bridge is a new one, with an
\* empty Assignment-Dependency Set.
C5_ResetClearsSession ==
    (pc = "idle" /\ ret.call = "reset")
    => /\ DOMAIN name_op_map = {}
       /\ init_ops = <<>>
       /\ ops_bridge = OpsBridge
       /\ ops_bridge.init_assign_op_names = {}
       /\ ~graph_def.set

\* C5 witness: a reset after an import that had completed with an
\* initializer node
C5_Witness ==
    /\ ret.call = "reset"
    /\ snap.taken /\ snap.shape.ninit > 0

\* C6: reset, parse(L), reset, parse(L): the second import has the keys, the
\* per-key shape (missing, single, tuple of a length) and the number of
\* initializer operations of the first.
C6_IdempotentReimport ==
    (ParseReturned /\ nparse = 1 /\ snap.taken)
    => SessionShape(name_op_map, init_ops) = snap.shape

\* C6 witness: a second import into a reset importer has completed, with a
\* tuple-valued entry and an initializer operation
C6_Witness ==
    /\ ParseReturned /\ nparse = 1
    /\ snap.taken /\ snap.again
    /\ Len(init_ops) = 1
    /\ \E k \in DOMAIN name_op_map : IsTuple(name_op_map[k])

\* the errors a malformed reference is signalled with
MalformedReferenceError == {"ValueError", "AssertionError"}

HasMalformedInput(node) == \E i \in 1..Len(node.input) : MalformedRef(node.input[i])

\* C7: a reference with a malformed suffix signals the malformed-reference
\* error; in a parse the error ends the call at that node: no node with such
\* a reference is ever recorded, no parse of a list holding one returns
\* normally, and nothing after the failing node is processed.
C7_MalformedReferenceIsFatal ==
    /\ (pc = "idle" /\ ret.call = "get_op_handle_by_name" /\ MalformedRef(ret.arg))
         => ret.exc \in MalformedReferenceError
    /\ \A j \in 1..Len(trace) : ~HasMalformedInput(graph_def.node[j])
    /\ ParseReturned
         => \A j \in 1..Len(graph_def.node) : ~HasMalformedInput(graph_def.node[j])
    /\ ParseRaised => Len(trace) = idx - 1
    /\ (/\ ParseRaised
        /\ graph_def.node[idx].input # <<>>
        /\ MalformedRef(graph_def.node[idx].input[1]))
         => ret.exc \in MalformedReferenceError

\* C7 witness: a parse ended by a malformed reference at the second of three
\* nodes
C7_Witness ==
    /\ ParseRaised
    /\ ret.exc \in MalformedReferenceError
    /\ HasMalformedInput(graph_def.node[idx])
    /\ idx = 2 /\ Len(graph_def.node) = 3
    /\ Len(trace) = 1
    /\ graph_def.node[2].name \notin DOMAIN name_op_map

OpsOfValue(v) ==
    IF IsNone(v) THEN {}
    ELSE IF IsTuple(v) THEN { v.elems[i] : i \in 1..Len(v.elems) }
    ELSE {v}

\* C9: every Operation in the name table has an exposed name without "/",
\* the name the bridge gave it with each "/" replaced by "_"; the key is the
\* node's own name, and a reference by that name resolves to the entry.
C9_NameSanitization ==
    /\ \A k \in DOMAIN name_op_map :
         /\ \A o \in OpsOfValue(name_op_map[k]) :
              /\ \A i \in 1..Len(o.name) : o.name[i] # "/"
              /\ Len(o.name) = Len(o.given)
              /\ \A i \in 1..Len(o.name) :
                   o.name[i] = IF o.given[i] = "/" THEN "_" ELSE o.given[i]
         /\ \E j \in 1..Len(pb) : pb[j].name = k
         /\ get_op_handle_by_name(name_op_map, k) = Ok(name_op_map[k])
    /\ \A j \in 1..Len(trace) : graph_def.node[j].name \in DOMAIN name_op_map

\* C9 witness: the node "a/b" has a tuple of Operations named "a_b" under
\* the key "a/b", and a later node that refers to "a/b:1" was imported
C9_Witness ==
    /\ ParseReturned
    /\ AB \in DOMAIN name_op_map
    /\ IsTuple(name_op_map[AB])
    /\ name_op_map[AB].elems[2].name = <<"a", "_", "b">>
    /\ C \in DOMAIN name_op_map
    /\ ~IsNone(name_op_map[C])
    /\ graph_def.node[3].input = << AB \o <<":", "1">> >>

\* C10: the query returns the distinct op types of the input that the bridge
\* has no handler for, in ascending order without duplicates; for the one
\* node of type FancyNewOp exactly that type.
C10_UnsupportedOpsListing ==
    (pc = "idle" /\ ret.call = "_get_unimplemented_ops")
    => LET out == ret.val.elems
       IN  /\ ret.exc = ""
           /\ { out[i] : i \in 1..Len(out) }
                = { <<pb[i].op>> : i \in 1..Len(pb) } \ { <<t>> : t \in SupportedOps }
           /\ \A i, j \in 1..Len(out) : i < j => TagRank(out[i]) < TagRank(out[j])
           /\ (Len(pb) = 1 /\ pb[1].op = "FancyNewOp") => out = << <<"FancyNewOp">> >>

\* C10 witness: two unsupported types, in the file in descending order and
\* one of them twice, are returned in ascending order
C10_Witness ==
    /\ ret.call = "_get_unimplemented_ops"
    /\ Len(pb) = 3
    /\ pb[1].op = "FancyNewOp" /\ pb[2].op = "AnotherNewOp" /\ pb[3].op = "FancyNewOp"
    /\ ret.val.elems = << <<"AnotherNewOp">>, <<"FancyNewOp">> >>

----------------------------------------------------------------------------
(* The materialization lifecycle of the Transformer *)

StateRank(st) ==
    IF st = "unallocated" THEN 0
    ELSE IF st = "allocated-uninitialized" THEN 1 ELSE 2

\* C11: the storage state of every Operation only moves forward, one state
\* at a time, from unallocated over allocated-uninitialized to initialized;
\* an array is created for it at most once, and once it has an array every
\* later execution writes into that same array.
C11_MaterializationLifecycle ==
    [][\A op \in DOMAIN allocation :
         LET a == allocation[op]
             b == allocation'[op]
         IN  /\ StateRank(b.state) >= StateRank(a.state)
             /\ StateRank(b.state) <= StateRank(a.state) + 1
             /\ b.allocs <= 1
             /\ a.buffer # 0 => b.buffer = a.buffer
             /\ a.state = "initialized" => b = a]_vars

\* a callable has run twice over a kernel Operation, which is initialized
\* in the one array created for it
C11_Witness ==
    /\ run.phase = "idle"
    /\ \E e \in Executors :
         /\ executors[e].calls = 2
         /\ graph[executors[e].output].kind = "kernel"
         /\ allocation[executors[e].output].state = "initialized"
         /\ allocation[executors[e].output].allocs = 1

\* the Operations some built callable depends on
ReachableOps ==
    UNION { Reachable(graph, executors[e].output) :
              e \in { x \in Executors : executors[x].built } }

\* both callables are built and each has been invoked exactly once
EachInvokedOnce ==
    /\ run.phase = "idle"
    /\ \A e \in Executors : executors[e].built /\ executors[e].calls = 1

----------------------------------------------------------------------------
(* Re-packing, the two passes and the initializer list *)

\* C13: what the table stores for a node has the arity of what the bridge
\* returned for it: a tuple of length n, n = 1 included, is stored as a
\* tuple of length n, a single Operation as a single Operation.
C13_ArityPreservation ==
    \A j \in 1..Len(trace) :
        trace[j].called /\ ~IsNone(trace[j].raw) =>
            /\ IsTuple(trace[j].out) = IsTuple(trace[j].raw)
            /\ IsTuple(trace[j].raw) =>
                   Len(trace[j].out.elems) = Len(trace[j].raw.elems)

\* the positions of the aggregate initializer nodes of the parsed list
InitPositions == { i \in 1..Len(graph_def.node) : IsInitNode(graph_def.node[i]) }

\* C14: at every call of the bridge during pass 2, the Assignment-Dependency
\* Set already holds what every initializer node of the list contributes
\* (each of its inputs without the control prefix), also for initializer
\* nodes that stand later in the list than the node being dispatched.
C14_TwoPhaseOrdering ==
    \A j \in 1..Len(trace) :
        trace[j].called =>
            \A i \in InitPositions :
                \A k \in 1..Len(graph_def.node[i].input) :
                    RefBody(graph_def.node[i].input[k]) \in trace[j].assigns

\* an Assign node was dispatched and special-cased although the initializer
\* node that names it stands later in the list
C14_Witness ==
    \E j \in 1..Len(trace) :
        /\ trace[j].called
        /\ ~IsNone(trace[j].out) /\ ~IsTuple(trace[j].out)
        /\ trace[j].out.special
        /\ \E i \in InitPositions : i > trace[j].pos
        /\ \A i \in InitPositions : i > trace[j].pos

\* the base names of the inputs of the initializer nodes of the parsed list
InitBaseNames ==
    UNION { { RefBase(graph_def.node[i].input[k]) :
                k \in 1..Len(graph_def.node[i].input) } : i \in InitPositions }

\* C15: once the discovery pass of a parse is over, the Assignment-Dependency
\* Set is the union, over the initializer nodes of the list, of the base
\* names of their inputs: control prefix and any ":k" suffix stripped.
C15_DiscoveryResult ==
    graph_def.set /\ pc # "pass1" =>
        ops_bridge.init_assign_op_names = InitBaseNames

\* a processed node that is an aggregate initializer node
IsInitEntry(t) == IsInitNode(graph_def.node[t.pos])

\* the values stored for the initializer nodes among the processed nodes
InitOuts ==
    LET sel == SelectSeq(trace, IsInitEntry)
    IN  [j \in 1..Len(sel) |-> sel[j].out]

\* C16: the initializer list holds, after what it held when the parse call
\* started (nothing, right after a reset), exactly one element for each
\* initializer node processed so far, in processing order, each the value
\* stored in the table for that node when it was processed; no other node
\* and no other operation appends to it.
C16_InitOpsList ==
    /\ init_ops = at_call.inits \o InitOuts
    /\ nparse = 0 => init_ops = <<>>
    /\ nparse = 1 => at_call.inits = <<>>
    /\ (trace # <<>> /\ IsInitEntry(trace[Len(trace)])) =>
           init_ops[Len(init_ops)] =
               name_op_map[graph_def.node[trace[Len(trace)].pos].name]

\* a second parse without reset has just appended for an initializer node,
\* after a node that is none, to what the first parse left
C16_Witness ==
    /\ nparse = 2
    /\ at_call.inits # <<>>
    /\ Len(trace) >= 2
    /\ IsInitEntry(trace[Len(trace)])
    /\ ~IsInitEntry(trace[1])
    /\ Len(init_ops) = Len(at_call.inits) + 1
    /\ ~IsNone(init_ops[Len(init_ops)])

----------------------------------------------------------------------------
(* Frame and failure behaviour of the importer *)

\* C17: a call of the unimplemented-ops query leaves the name table, the
\* initializer list, the importer's bridge with its Assignment-Dependency
\* Set, and the recorded node list as they were.
C17_QueryFrame ==
    [][ret'.call = "_get_unimplemented_ops" =>
          /\ name_op_map' = name_op_map
          /\ init_ops' = init_ops
          /\ ops_bridge' = ops_bridge
          /\ graph_def' = graph_def]_vars

\* the query has returned on an importer that holds an imported graph
C17_Witness ==
    /\ ret.call = "_get_unimplemented_ops"
    /\ name_op_map # EmptyMap
    /\ init_ops # <<>>
    /\ ops_bridge.init_assign_op_names # {}
    /\ graph_def.set

\* the names of the first n nodes of the parsed list
NodeNames(n) == { graph_def.node[i].name : i \in 1..n }

\* C18: after a parse call that returns normally, the keys of the name table
\* are the keys it had when the call started together with the names of all
\* nodes of the parsed list.
C18_KeysAfterParse ==
    ParseReturned =>
        DOMAIN name_op_map =
            DOMAIN at_call.table \cup NodeNames(Len(graph_def.node))

\* a parse of three differently named nodes has returned on a table that
\* already held entries
C18_Witness ==
    /\ ParseReturned
    /\ at_call.table # EmptyMap
    /\ Cardinality(NodeNames(Len(graph_def.node))) = 3
    /\ Cardinality(DOMAIN name_op_map) = 3

\* the last parse call raised in pass 2, at position idx of the list, and
\* neither reset nor parse_graph_def was called since
AbortedParse == pc = "idle" /\ graph_def.set /\ idx <= Len(graph_def.node)

\* the last processed node with the given name, or 0
LastProcessed(name) == LastBefore(Len(trace) + 1, name)

\* the table holds what it held when the call started and, over it, an
\* entry for each node processed before the failing position
TableUpToFailure ==
    /\ Len(trace) = idx - 1
    /\ DOMAIN name_op_map = DOMAIN at_call.table \cup NodeNames(idx - 1)
    /\ \A k \in DOMAIN name_op_map :
           name_op_map[k] = IF LastProcessed(k) = 0 THEN at_call.table[k]
                            ELSE trace[LastProcessed(k)].out

\* the Assignment-Dependency Set holds the contribution of every initializer
\* node of the list, before and after the failing position
FullDiscovery ==
    \A i \in InitPositions :
        AssignOpNames(graph_def.node[i]) \subseteq ops_bridge.init_assign_op_names

\* C19 as stated: after a parse call raised in pass 2 at position idx, the
\* table holds entries for exactly the nodes before that position (and what
\* it held before), the name of the failing node has no entry, the
\* initializer list holds the appends made before that position, and the
\* Assignment-Dependency Set holds the whole discovery result.
C19_NoRollbackAsStated ==
    AbortedParse =>
        /\ TableUpToFailure
        /\ graph_def.node[idx].name \notin DOMAIN name_op_map
        /\ init_ops = at_call.inits \o InitOuts
        /\ FullDiscovery

\* C19, amended: as above without the clause on the failing node's name
\* (an earlier node of the same name, or the table before the call, can have
\* given it an entry), and this holds from the abort on through lookups and
\* queries, until reset or parse_graph_def is called again.
C19_NoRollback ==
    AbortedParse =>
        /\ TableUpToFailure
        /\ init_ops = at_call.inits \o InitOuts
        /\ FullDiscovery

\* a parse raised at its second or third node, before an initializer node
\* of the list, and a lookup was made since
C19_Witness ==
    /\ AbortedParse
    /\ idx >= 2
    /\ \E i \in InitPositions : i >= idx
    /\ ops_bridge.init_assign_op_names # {}
    /\ name_op_map # EmptyMap
    /\ ret.call = "get_op_handle_by_name"

\* a reference 'base:k' with one suffix that is an integer, and its k
SuffixedRef(r) == Cardinality(Colons(r)) = 1 /\ IntOk(RefSuffix(r))

SuffixIndex(r) == IntOf(RefSuffix(r))

\* the table had an entry for base when the node at position j was reached,
\* and that entry
HasEntryAt(j, base) == LastBefore(j, base) # 0 \/ base \in DOMAIN at_call.table

EntryAt(j, base) ==
    IF LastBefore(j, base) # 0 THEN trace[LastBefore(j, base)].out
    ELSE at_call.table[base]

\* input r of the node at position j is 'base:k' and the entry of base is a
\* single Operation or the missing marker
NonTupleRef(j, r) ==
    /\ SuffixedRef(r)
    /\ HasEntryAt(j, RefBase(r))
    /\ ~IsTuple(EntryAt(j, RefBase(r)))

\* C20: for a reference 'base:k' whose table entry is no tuple, the lookup
\* returns the entry itself when k = 0 and raises an assertion error when
\* k # 0.  In a parse, an input 'base:0' on a missing producer resolves to
\* missing and the node is stored as missing without a bridge call; a node
\* with an input 'base:k', k # 0, on a non-tuple entry is never processed,
\* and a parse that fails on such a first input has raised the assertion
\* error.
C20_SuffixOnNonTuple ==
    /\ (/\ ret.call = "get_op_handle_by_name"
        /\ SuffixedRef(ret.arg)
        /\ RefBase(ret.arg) \in DOMAIN name_op_map
        /\ ~IsTuple(name_op_map[RefBase(ret.arg)])) =>
           IF SuffixIndex(ret.arg) = 0
           THEN ret.exc = "" /\ ret.val = name_op_map[RefBase(ret.arg)]
           ELSE ret.exc = "AssertionError"
    /\ \A j \in 1..Len(trace) :
           \A k \in 1..Len(graph_def.node[j].input) :
               LET r == graph_def.node[j].input[k]
               IN  NonTupleRef(j, r) =>
                       /\ SuffixIndex(r) = 0
                       /\ IsNone(EntryAt(j, RefBase(r))) =>
                              /\ trace[j].none_in
                              /\ ~trace[j].called
                              /\ IsNone(trace[j].out)
    /\ (/\ ParseRaised
        /\ graph_def.node[idx].input # <<>>
        /\ NonTupleRef(idx, graph_def.node[idx].input[1])
        /\ SuffixIndex(graph_def.node[idx].input[1]) # 0) =>
           ret.exc = "AssertionError"

\* a parse has raised the assertion error at a node whose input 'a/b:1'
\* names a producer that is stored as missing
C20_Witness ==
    /\ ParseRaised
    /\ ret.exc = "AssertionError"
    /\ graph_def.node[idx].input # <<>>
    /\ SuffixedRef(graph_def.node[idx].input[1])
    /\ SuffixIndex(graph_def.node[idx].input[1]) = 1
    /\ RefBase(graph_def.node[idx].input[1]) \in DOMAIN name_op_map
    /\ IsNone(name_op_map[RefBase(graph_def.node[idx].input[1])])

=============================================================================
